---- MODULE Spec2Model ----
(***************************************************************************)
(* Model of plugins/modules/block_device.py: one module invocation         *)
(* (run) reconciling a declared block device against the remote service.   *)
(*                                                                         *)
(* Python values: a value v is the set {v} and None is the empty set, so   *)
(* that a parameter that was not given, a parameter given as 0 or "" and a *)
(* parameter given a real value are three different things, as they are    *)
(* for the truth tests of the code.  A dict is a function from its keys to *)
(* such values.                                                            *)
(***************************************************************************)
EXTENDS Integers, Sequences, FiniteSets, TLC

\* ------------------------------------------------------------- bounds
\* Declared partitions per block device.
MaxParts == 2
\* Invocations of the module, one after the other, on the same remote state.
MaxRuns == 2

\* ------------------------------------------------------ Python values
None == {}
Some(v) == {v}
Get(o) == CHOOSE v \in o : TRUE
EmptyDict == [k \in {} |-> None]

\* `if x:` on an int parameter: None and 0 are false.
TruthyInt(o) == o # None /\ o # Some(0)
\* `if x:` on a str parameter: None and "" are false.
TruthyStr(o) == o # None /\ o # Some("")
\* `if x:` on a list parameter: None and [] are false.
TruthyList(o) == o # None /\ o # Some(<<>>)
\* `if x:` on a bool parameter: None and False are false.
TruthyBool(o) == o = Some(TRUE)

\* The block size data_for_create_block_device starts from.
DefaultBlockSize == 512

\* --------------------------------------------------- pure functions
data_for_create_block_device_nodefault(p) ==
    ("name" :> p.name) @@ ("size" :> p.size_gigabytes)
    @@ ("block_size" :> p.block_size)
    @@ (IF TruthyStr(p.model) THEN "model" :> p.model ELSE EmptyDict)
    @@ (IF TruthyStr(p.serial) THEN "serial" :> p.serial ELSE EmptyDict)
    @@ (IF TruthyStr(p.id_path) THEN "id_path" :> p.id_path ELSE EmptyDict)

\* data_for_create_block_device(module)
data_for_create_block_device(p) ==
    ("name" :> p.name) @@ ("size" :> p.size_gigabytes)
    @@ ("block_size" :> (IF TruthyInt(p.block_size) THEN p.block_size ELSE Some(DefaultBlockSize)))
    @@ (IF TruthyStr(p.model) THEN "model" :> p.model ELSE EmptyDict)
    @@ (IF TruthyStr(p.serial) THEN "serial" :> p.serial ELSE EmptyDict)
    @@ (IF TruthyStr(p.id_path) THEN "id_path" :> p.id_path ELSE EmptyDict)

\* The dict data_for_create_partition builds in its local variable `data`
\* (the second key is spelled "bootalbe" in the source).
partition_data_built(partition) ==
    (IF TruthyInt(partition.size_gigabytes) THEN "size" :> partition.size_gigabytes ELSE EmptyDict)
    @@ (IF TruthyBool(partition.bootable) THEN "bootalbe" :> partition.bootable ELSE EmptyDict)

\* data_for_create_partition(partition): the function has no return
\* statement, so the caller gets None whatever `data` holds.
data_for_create_partition(partition) == None

\* The format payload create_partition builds (lines 249-252).
data_for_format(partition) ==
    ("fstype" :> partition.fs_type)
    @@ (IF TruthyStr(partition.label) THEN "label" :> partition.label ELSE EmptyDict)

\* The mount payload create_partition builds (lines 257-260).
data_for_mount(partition) ==
    ("mount_point" :> partition.mount_point)
    @@ (IF TruthyStr(partition.mount_options)
        THEN "mount_options" :> partition.mount_options ELSE EmptyDict)

\* MachineTaskState.ready.value
ReadyStatus == "ready"

\* data_for_update_block_device(module, block_device, machine, client)
data_for_update_block_device_nogate(p, block_device, status) ==
    (IF TruthyStr(p.new_name) /\ block_device.name # p.new_name
     THEN "name" :> p.new_name ELSE EmptyDict)
    @@ (IF TruthyStr(p.model) /\ block_device.model # p.model
        THEN "model" :> p.model ELSE EmptyDict)
    @@ (IF TruthyStr(p.serial) /\ block_device.serial # p.serial
        THEN "serial" :> p.serial ELSE EmptyDict)
    @@ (IF TruthyStr(p.id_path) /\ block_device.id_path # p.id_path
        THEN "id_path" :> p.id_path ELSE EmptyDict)
    @@ (IF TruthyInt(p.block_size) /\ block_device.block_size # p.block_size
        THEN "block_size" :> p.block_size ELSE EmptyDict)
    @@ (IF TruthyInt(p.size_gigabytes) /\ block_device.size # p.size_gigabytes
        THEN "size" :> p.size_gigabytes ELSE EmptyDict)

data_for_update_block_device(p, block_device, status) ==
    (IF TruthyStr(p.new_name) /\ block_device.name # p.new_name
     THEN "name" :> p.new_name ELSE EmptyDict)
    @@ (IF TruthyStr(p.model) /\ block_device.model # p.model
        THEN "model" :> p.model ELSE EmptyDict)
    @@ (IF TruthyStr(p.serial) /\ block_device.serial # p.serial
        THEN "serial" :> p.serial ELSE EmptyDict)
    @@ (IF TruthyStr(p.id_path) /\ block_device.id_path # p.id_path
        THEN "id_path" :> p.id_path ELSE EmptyDict)
    @@ (IF status = ReadyStatus /\ TruthyInt(p.block_size)
           /\ block_device.block_size # p.block_size
        THEN "block_size" :> p.block_size ELSE EmptyDict)
    @@ (IF status = ReadyStatus /\ TruthyInt(p.size_gigabytes)
           /\ block_device.size # p.size_gigabytes
        THEN "size" :> p.size_gigabytes ELSE EmptyDict)

\* ------------------------------------------------------------ inputs
DeviceName == "vdb"

\* A partition declaration (the suboptions of `partitions`): every
\* combination of fs_type, mount_point and tags, each with none or with
\* all of size_gigabytes, bootable, label and mount_options.
PartDecls ==
    { [size_gigabytes |-> x[1], bootable |-> x[2], tags |-> tg, fs_type |-> fs,
       label |-> x[3], mount_point |-> mp, mount_options |-> x[4]] :
        tg \in {None, Some(<<"pt">>)},
        fs \in {None, Some("ext4")}, mp \in {None, Some("/media")},
        x \in {<<None, None, None, None>>,
               <<Some(10), Some(TRUE), Some("media"), Some("ro")>>} }

RECURSIVE SeqsUpTo(_, _)
SeqsUpTo(S, n) ==
    IF n = 0 THEN {<<>>}
    ELSE LET shorter == SeqsUpTo(S, n - 1)
         IN  shorter \cup {Append(s, e) : s \in {t \in shorter : Len(t) = n - 1}, e \in S}

\* model and serial are required together and exclude id_path
\* (required_together / mutually_exclusive of the argument spec).
Identities ==
    { <<None, None, None>>, <<Some("m1"), Some("s1"), None>>,
      <<None, None, Some("/dev/vdb")>>, <<None, None, Some("")>> }

Decl(st, bs, id, tg, boot, parts) ==
    [state |-> st, name |-> Some(DeviceName), new_name |-> None,
     size_gigabytes |-> Some(27), block_size |-> bs,
     model |-> id[1], serial |-> id[2], id_path |-> id[3],
     tags |-> tg, is_boot_device |-> boot, partitions |-> parts]

\* Declarations that vary the block device's own options.
DeviceDecls ==
    { Decl(st, bs, id, tg, boot, None) :
        st \in {"present", "absent"}, bs \in {None, Some(0), Some(4096)},
        id \in Identities, tg \in {None, Some(<<"b">>), Some(<<"b", "c">>)},
        boot \in {None, Some(FALSE), Some(TRUE)} }

\* Declarations that vary the partition list.
PartitionDecls ==
    { Decl("present", None, <<None, None, Some("/dev/vdb")>>, Some(<<"b", "c">>),
           Some(TRUE), Some(ps)) : ps \in SeqsUpTo(PartDecls, MaxParts) }

Params == DeviceDecls \cup PartitionDecls

\* ------------------------------------------------ the remote service
\* A block device as the service holds and reports it.
NewDevice(payload) ==
    [name |-> payload["name"], size |-> payload["size"],
     block_size |-> payload["block_size"],
     model |-> IF "model" \in DOMAIN payload THEN payload["model"] ELSE None,
     serial |-> IF "serial" \in DOMAIN payload THEN payload["serial"] ELSE None,
     id_path |-> IF "id_path" \in DOMAIN payload THEN payload["id_path"] ELSE None,
     tags |-> {}, is_boot |-> FALSE, partitions |-> <<>>]

\* A partition as the service creates it from a create payload (None: no
\* request body, the partition takes the rest of the device).
NewPartition(payload) ==
    [size |-> IF payload # None /\ "size" \in DOMAIN Get(payload)
              THEN Get(payload)["size"] ELSE None,
     fstype |-> None, label |-> None, mount_point |-> None,
     mount_options |-> None, tags |-> {}]

ExistingDevice ==
    [name |-> Some(DeviceName), size |-> Some(27), block_size |-> Some(512),
     model |-> None, serial |-> None, id_path |-> None,
     tags |-> {"a", "b"}, is_boot |-> FALSE, partitions |-> <<>>]

MachineStatuses == {ReadyStatus, "deployed"}

\* ------------------------------------------------------------- state
VARIABLES
    params,     \* module.params: the declaration, the same in every run
    machine,    \* the remote machine: None (no such FQDN) or its status
    device,     \* the remote block device of that name: None or its record
    pc,         \* where the invocation stands
    found,      \* whether run's / delete's get_by_name found the device
    before,     \* block_device_maas_dict: the snapshot fetched first
    pidx,       \* create_partition's position in module.params["partitions"]
    tidx,       \* position in the tag list being added
    calls,      \* the remote calls this invocation has issued, in order
    result,     \* None, or what the invocation handed to exit_json
    data,       \* the dict data_for_update_block_device returned, or None
    runNo,      \* the number of this invocation
    hist        \* how the earlier invocations went

vars == <<params, machine, device, pc, found, before, pidx, tidx, calls,
          result, data, runNo, hist>>

Terminal == {"done", "failed", "crashed"}

Call(op, part, payload, tag) ==
    [op |-> op, part |-> part, payload |-> payload, tag |-> tag]

Issue(op, part, payload, tag) == calls' = Append(calls, Call(op, part, payload, tag))

Result(changed, record, b, a) ==
    Some([changed |-> changed, record |-> record, diff |-> [before |-> b, after |-> a]])

Partitions == Get(params.partitions)
DeviceTags == Get(params.tags)

Fail_rollback(op, part, payload, tag) ==
    /\ calls' = calls \o <<Call(op, part, payload, tag),
                            Call("deleteBlockDevice", 0, None, "")>>
    /\ device' = None
    /\ pc' = "failed"
    /\ UNCHANGED <<params, machine, found, before, pidx, tidx, result,
                   data, runNo, hist>>

\* A MaasError from the client: main's except clause calls fail_json and
\* nothing else of the invocation runs.
Fail(op, part, payload, tag) ==
    /\ Issue(op, part, payload, tag)
    /\ pc' = "failed"
    /\ UNCHANGED <<params, machine, device, found, before, pidx, tidx, result,
                   data, runNo, hist>>

Init ==
    /\ params \in Params
    /\ machine \in {None} \cup {Some(s) : s \in MachineStatuses}
    /\ device \in {None, Some(ExistingDevice)}
    /\ pc = "start"
    /\ found = FALSE
    /\ before = EmptyDict
    /\ pidx = 0
    /\ tidx = 0
    /\ calls = <<>>
    /\ result = None
    /\ data = None
    /\ runNo = 1
    /\ hist = <<>>

ResolveMachine_nodispatch ==
    /\ pc = "start"
    /\ Issue("findMachine", 0, None, "")
    /\ pc' = IF machine = None THEN "failed" ELSE "locate"
    /\ UNCHANGED <<params, machine, device, found, before, pidx, tidx, result,
                   data, runNo, hist>>

ResolveMachine_notfatal ==
    /\ pc = "start"
    /\ Issue("findMachine", 0, None, "")
    /\ pc' = IF params.state = "present" THEN "locate" ELSE "delete_locate"
    /\ UNCHANGED <<params, machine, device, found, before, pidx, tidx, result,
                   data, runNo, hist>>

\* run, line 339: Machine.get_by_fqdn(..., must_exist=True).
ResolveMachine ==
    /\ pc = "start"
    /\ Issue("findMachine", 0, None, "")
    /\ pc' = IF machine = None THEN "failed"
             ELSE IF params.state = "present" THEN "locate" ELSE "delete_locate"
    /\ UNCHANGED <<params, machine, device, found, before, pidx, tidx, result,
                   data, runNo, hist>>

LocateDevice_alwayscreate ==
    /\ pc = "locate"
    /\ Issue("findBlockDevice", 0, None, "")
    /\ found' = (device # None)
    /\ pc' = "create"
    /\ UNCHANGED <<params, machine, device, before, pidx, tidx, result, data,
                   runNo, hist>>

LocateDevice_mustexist ==
    /\ pc = "locate"
    /\ Issue("findBlockDevice", 0, None, "")
    /\ found' = (device # None)
    /\ pc' = IF device # None THEN "update_locate" ELSE "failed"
    /\ UNCHANGED <<params, machine, device, before, pidx, tidx, result, data,
                   runNo, hist>>

\* run, lines 343-347: BlockDevice.get_by_name, then the update or the
\* create branch.
LocateDevice ==
    /\ pc = "locate"
    /\ Issue("findBlockDevice", 0, None, "")
    /\ found' = (device # None)
    /\ pc' = IF device # None THEN "update_locate" ELSE "create"
    /\ UNCHANGED <<params, machine, device, before, pidx, tidx, result, data,
                   runNo, hist>>

\* ---------------------------------------------------- the create path
Pos(p, i, t) == [pc |-> p, pidx |-> i, tidx |-> t]

Goto(pos) == pc' = pos.pc /\ pidx' = pos.pidx /\ tidx' = pos.tidx

AfterPartitions_bootfirst ==
    IF TruthyBool(params.is_boot_device) THEN Pos("boot", 0, 0)
    ELSE IF TruthyList(params.tags) THEN Pos("device_tag", 0, 1)
    ELSE Pos("create_fetch", 0, 0)

\* create_block_device, lines 221-226: what follows the partitions.
AfterPartitions ==
    IF TruthyList(params.tags) THEN Pos("device_tag", 0, 1)
    ELSE IF TruthyBool(params.is_boot_device) THEN Pos("boot", 0, 0)
    ELSE Pos("create_fetch", 0, 0)

\* create_block_device, lines 224-226: what follows the device's tags.
AfterDeviceTags ==
    IF TruthyBool(params.is_boot_device) THEN Pos("boot", 0, 0)
    ELSE Pos("create_fetch", 0, 0)

\* create_partition, line 243: the next turn of the loop, or its end.
NextPartition(i) ==
    IF i < Len(Partitions) THEN Pos("partition_create", i + 1, 0) ELSE AfterPartitions

\* create_partition, lines 262-264: the partition's tags come last.
AfterMount(i) ==
    IF TruthyList(Partitions[i].tags) THEN Pos("partition_tag", i, 1) ELSE NextPartition(i)

\* create_partition, lines 254-261: mount only inside the fs_type branch.
AfterFormat(i) ==
    IF TruthyStr(Partitions[i].mount_point) THEN Pos("partition_mount", i, 0) ELSE AfterMount(i)

AfterPartitionCreate_mountunformatted(i) ==
    IF TruthyStr(Partitions[i].fs_type) THEN Pos("partition_format", i, 0)
    ELSE IF TruthyStr(Partitions[i].mount_point) THEN Pos("partition_mount", i, 0)
    ELSE AfterMount(i)

AfterPartitionCreate_tagsonlyformatted(i) ==
    IF TruthyStr(Partitions[i].fs_type) THEN Pos("partition_format", i, 0)
    ELSE NextPartition(i)

\* create_partition, lines 246-253: format only when fs_type is given.
AfterPartitionCreate(i) ==
    IF TruthyStr(Partitions[i].fs_type) THEN Pos("partition_format", i, 0) ELSE AfterMount(i)

\* create_block_device, lines 219-220.
AfterDeviceCreate ==
    IF TruthyList(params.partitions) THEN Pos("partition_create", 1, 0) ELSE AfterPartitions

\* create_block_device, lines 217-218: BlockDevice.create.
CreateDevice ==
    /\ pc = "create"
    /\ LET payload == data_for_create_block_device(params)
       IN  \/ /\ Issue("createBlockDevice", 0, Some(payload), "")
              /\ device' = Some(NewDevice(payload))
              /\ Goto(AfterDeviceCreate)
              /\ UNCHANGED <<params, machine, found, before, result, data, runNo, hist>>
           \/ Fail("createBlockDevice", 0, Some(payload), "")

\* create_partition, lines 244-245: Partition.create.
PartitionCreate ==
    /\ pc = "partition_create"
    /\ LET payload == data_for_create_partition(Partitions[pidx])
       IN  \/ /\ Issue("createPartition", pidx, payload, "")
              /\ device' = Some([Get(device) EXCEPT
                                   !.partitions = Append(@, NewPartition(payload))])
              /\ Goto(AfterPartitionCreate(pidx))
              /\ UNCHANGED <<params, machine, found, before, result, data, runNo, hist>>
           \/ Fail("createPartition", pidx, payload, "")

\* create_partition, lines 249-253: new_partition.format.
PartitionFormat ==
    /\ pc = "partition_format"
    /\ LET payload == data_for_format(Partitions[pidx])
       IN  \/ /\ Issue("formatPartition", pidx, Some(payload), "")
              /\ device' = Some([Get(device) EXCEPT
                                   !.partitions[pidx].fstype = payload["fstype"],
                                   !.partitions[pidx].label =
                                       IF "label" \in DOMAIN payload
                                       THEN payload["label"] ELSE None])
              /\ Goto(AfterFormat(pidx))
              /\ UNCHANGED <<params, machine, found, before, result, data, runNo, hist>>
           \/ Fail("formatPartition", pidx, Some(payload), "")

\* create_partition, lines 257-261: new_partition.mount.
PartitionMount ==
    /\ pc = "partition_mount"
    /\ LET payload == data_for_mount(Partitions[pidx])
       IN  \/ /\ Issue("mountPartition", pidx, Some(payload), "")
              /\ device' = Some([Get(device) EXCEPT
                                   !.partitions[pidx].mount_point = payload["mount_point"],
                                   !.partitions[pidx].mount_options =
                                       IF "mount_options" \in DOMAIN payload
                                       THEN payload["mount_options"] ELSE None])
              /\ Goto(AfterMount(pidx))
              /\ UNCHANGED <<params, machine, found, before, result, data, runNo, hist>>
           \/ Fail("mountPartition", pidx, Some(payload), "")

\* create_partition, lines 263-264: new_partition.add_tag, tag by tag.
PartitionTag ==
    /\ pc = "partition_tag"
    /\ LET tags == Get(Partitions[pidx].tags)
           tag == tags[tidx]
       IN  \/ /\ Issue("addPartitionTag", pidx, None, tag)
              /\ device' = Some([Get(device) EXCEPT !.partitions[pidx].tags = @ \cup {tag}])
              /\ Goto(IF tidx < Len(tags) THEN Pos("partition_tag", pidx, tidx + 1)
                      ELSE NextPartition(pidx))
              /\ UNCHANGED <<params, machine, found, before, result, data, runNo, hist>>
           \/ Fail("addPartitionTag", pidx, None, tag)

\* create_block_device, lines 222-223: block_device.add_tag, tag by tag.
DeviceTag ==
    /\ pc = "device_tag"
    /\ LET tag == DeviceTags[tidx]
       IN  \/ /\ Issue("addDeviceTag", 0, None, tag)
              /\ device' = Some([Get(device) EXCEPT !.tags = @ \cup {tag}])
              /\ Goto(IF tidx < Len(DeviceTags) THEN Pos("device_tag", 0, tidx + 1)
                      ELSE AfterDeviceTags)
              /\ UNCHANGED <<params, machine, found, before, result, data, runNo, hist>>
           \/ Fail("addDeviceTag", 0, None, tag)

\* create_block_device, line 225: block_device.set_boot_disk.
SetBootDisk ==
    /\ pc = "boot"
    /\ \/ /\ Issue("setBootDevice", 0, None, "")
          /\ device' = Some([Get(device) EXCEPT !.is_boot = TRUE])
          /\ Goto(Pos("create_fetch", 0, 0))
          /\ UNCHANGED <<params, machine, found, before, result, data, runNo, hist>>
       \/ Fail("setBootDevice", 0, None, "")

create_result_unchanged(snapshot) == Result(FALSE, snapshot, snapshot, snapshot)

\* create_block_device, lines 227-231: the tuple it returns.
create_result(snapshot) == Result(TRUE, snapshot, EmptyDict, snapshot)

\* create_block_device, lines 226-231, and main's exit_json.
CreateFetch ==
    /\ pc = "create_fetch"
    /\ Issue("getBlockDeviceSnapshot", 0, None, "")
    /\ result' = create_result(Get(device))
    /\ pc' = "done"
    /\ UNCHANGED <<params, machine, device, found, before, pidx, tidx, data, runNo, hist>>

\* ---------------------------------------------------- the update path
\* update_block_device, lines 297-303: BlockDevice.get_by_name with
\* must_exist=True.
UpdateLocate ==
    /\ pc = "update_locate"
    /\ Issue("findBlockDevice", 0, None, "")
    /\ pc' = IF device # None THEN "update_fetch" ELSE "failed"
    /\ UNCHANGED <<params, machine, device, found, before, pidx, tidx, result,
                   data, runNo, hist>>

\* update_block_device, line 304: block_device.get, the "before" snapshot
\* (a MaasError if the device is gone by now).
UpdateFetchBefore ==
    /\ pc = "update_fetch"
    /\ Issue("getBlockDeviceSnapshot", 0, None, "")
    /\ IF device # None
       THEN before' = Get(device) /\ pc' = "update_diff"
       ELSE before' = before /\ pc' = "failed"
    /\ UNCHANGED <<params, machine, device, found, pidx, tidx, result, data, runNo, hist>>

\* update_block_device, line 305: data_for_update_block_device(module,
\* machine) gives two arguments to a function of four (line 267), so the
\* call raises TypeError before the function's body runs.  TypeError is
\* no MaasError: main does not catch it, no exit_json and no fail_json
\* follows, and lines 306-326 never run.
UpdateDiff ==
    /\ pc = "update_diff"
    /\ pc' = "crashed"
    /\ UNCHANGED <<params, machine, device, found, before, pidx, tidx, calls,
                   result, data, runNo, hist>>

\* ---------------------------------------------------- the delete path
delete_absent_result_changed == Result(TRUE, EmptyDict, EmptyDict, EmptyDict)

\* delete_block_device, line 335.
delete_absent_result == Result(FALSE, EmptyDict, EmptyDict, EmptyDict)

delete_result_nobefore(snapshot) == Result(TRUE, EmptyDict, EmptyDict, EmptyDict)

\* delete_block_device, line 334.
delete_result(snapshot) == Result(TRUE, EmptyDict, snapshot, EmptyDict)

\* delete_block_device, lines 330-331 and 335: BlockDevice.get_by_name.
DeleteLocate ==
    /\ pc = "delete_locate"
    /\ Issue("findBlockDevice", 0, None, "")
    /\ found' = (device # None)
    /\ IF device # None
       THEN pc' = "delete_fetch" /\ result' = result
       ELSE pc' = "done" /\ result' = delete_absent_result
    /\ UNCHANGED <<params, machine, device, before, pidx, tidx, data, runNo, hist>>

\* delete_block_device, line 332: block_device.get.
DeleteFetch ==
    /\ pc = "delete_fetch"
    /\ Issue("getBlockDeviceSnapshot", 0, None, "")
    /\ IF device # None
       THEN before' = Get(device) /\ pc' = "delete_call"
       ELSE before' = before /\ pc' = "failed"
    /\ UNCHANGED <<params, machine, device, found, pidx, tidx, result, data, runNo, hist>>

\* delete_block_device, lines 333-334: block_device.delete.
DeleteCall ==
    /\ pc = "delete_call"
    /\ \/ /\ device # None
          /\ Issue("deleteBlockDevice", 0, None, "")
          /\ device' = None
          /\ result' = delete_result(before)
          /\ pc' = "done"
          /\ UNCHANGED <<params, machine, found, before, pidx, tidx, data, runNo, hist>>
       \/ Fail("deleteBlockDevice", 0, None, "")

\* ------------------------------------------------------ the next run
\* The module is run again with the same declaration; the remote state
\* is what the last run left.
Restart ==
    /\ pc \in Terminal
    /\ runNo < MaxRuns
    /\ hist' = Append(hist, [found |-> found, outcome |-> pc, result |-> result,
                             calls |-> calls])
    /\ runNo' = runNo + 1
    /\ pc' = "start"
    /\ found' = FALSE
    /\ before' = EmptyDict
    /\ pidx' = 0
    /\ tidx' = 0
    /\ calls' = <<>>
    /\ result' = None
    /\ UNCHANGED <<params, machine, device, data>>

Next ==
    \/ ResolveMachine
    \/ LocateDevice
    \/ CreateDevice
    \/ PartitionCreate
    \/ PartitionFormat
    \/ PartitionMount
    \/ PartitionTag
    \/ DeviceTag
    \/ SetBootDisk
    \/ CreateFetch
    \/ UpdateLocate
    \/ UpdateFetchBefore
    \/ UpdateDiff
    \/ DeleteLocate
    \/ DeleteFetch
    \/ DeleteCall
    \/ Restart

Spec == Init /\ [][Next]_vars

\* ------------------------------------------- with another invocation
\* Another invocation (state=absent, same name) deletes the block device
\* after this one has located it; the module takes no lock.
OtherDelete ==
    /\ pc \in {"update_locate", "update_fetch", "delete_fetch", "delete_call"}
    /\ device # None
    /\ device' = None
    /\ UNCHANGED <<params, machine, pc, found, before, pidx, tidx, calls, result,
                   data, runNo, hist>>

NextConc == Next \/ OtherDelete

\* The lookups do not depend on the partitions declared: the declarations
\* tried with another invocation carry at most MaxConcParts of them.
MaxConcParts == 1

ConcParams ==
    {p \in Params :
        p.partitions = None \/ Len(Get(p.partitions)) <= MaxConcParts}

InitConc ==
    /\ Init
    /\ params \in ConcParams

SpecConc == InitConc /\ [][NextConc]_vars

\* ------------------------------------------- the diff function alone
\* data_for_update_block_device applied to a declaration, a block device
\* and a machine status, as a call with all its arguments would apply it.
DiffParams ==
    { [state |-> "present", name |-> Some(DeviceName), new_name |-> nn,
       size_gigabytes |-> sz, block_size |-> bs,
       model |-> id[1], serial |-> id[2], id_path |-> id[3],
       tags |-> None, is_boot_device |-> None, partitions |-> None] :
        nn \in {None, Some(""), Some(DeviceName), Some("sdb")},
        sz \in {None, Some(0), Some(27), Some(30)},
        bs \in {None, Some(0), Some(512), Some(4096)},
        id \in Identities }

DiffDevices ==
    { ExistingDevice,
      [ExistingDevice EXCEPT !.model = Some("m1"), !.serial = Some("s0"),
                             !.block_size = Some(4096)],
      [ExistingDevice EXCEPT !.id_path = Some("/dev/vdb"), !.size = Some(30)] }

InitDiff ==
    /\ params \in DiffParams
    /\ machine \in {Some(s) : s \in MachineStatuses}
    /\ device \in {Some(d) : d \in DiffDevices}
    /\ pc = "diff_call"
    /\ found = TRUE
    /\ before = EmptyDict
    /\ pidx = 0
    /\ tidx = 0
    /\ calls = <<>>
    /\ result = None
    /\ data = None
    /\ runNo = 1
    /\ hist = <<>>

ApplyDiff ==
    /\ pc = "diff_call"
    /\ data' = Some(data_for_update_block_device(params, Get(device), Get(machine)))
    /\ pc' = "diff_done"
    /\ UNCHANGED <<params, machine, device, found, before, pidx, tidx, calls,
                   result, runNo, hist>>

NextDiff == ApplyDiff

SpecDiff == InitDiff /\ [][NextDiff]_vars

\* ------------------------------------------------------------ claims
MutatingOps ==
    {"createBlockDevice", "updateBlockDevice", "deleteBlockDevice", "addDeviceTag",
     "setBootDevice", "createPartition", "formatPartition", "mountPartition",
     "addPartitionTag"}

Ops == [k \in 1..Len(calls) |-> calls[k].op]

DeclaredTags ==
    IF TruthyList(params.tags) THEN {DeviceTags[k] : k \in 1..Len(DeviceTags)} ELSE {}

DeclaredPartitions == IF TruthyList(params.partitions) THEN Partitions ELSE <<>>

\* The invocation took the update branch and ended without any remote
\* call failing.
UpdateRunEnded == params.state = "present" /\ found /\ pc \in Terminal \ {"failed"}

\* C1: when the module runs a second time with state=present and the same
\* declaration on a block device that was already there for the first
\* run, the second run completes with changed = false and a diff whose
\* before and after are the same snapshot.
C1_IdempotentUpdate ==
    (/\ runNo >= 2
     /\ params.state = "present"
     /\ hist[runNo - 1].found
     /\ pc \in Terminal)
    => (/\ pc = "done"
        /\ result # None
        /\ Get(result).changed = FALSE
        /\ Get(result).diff.before = Get(result).diff.after)

\* C2: a state=present invocation that finds no block device of the name
\* and completes reports changed = true, before = {}, and the snapshot
\* fetched after all the create-path calls as both record and after.
C2_CreateReportedChanged ==
    (params.state = "present" /\ ~found /\ pc = "done")
    => (/\ result = Result(TRUE, Get(device), EmptyDict, Get(device))
        /\ calls[Len(calls)].op = "getBlockDeviceSnapshot"
        /\ \A k \in 1..(Len(calls) - 1) : calls[k].op # "getBlockDeviceSnapshot")

C2_Witness ==
    /\ params.state = "present" /\ ~found /\ pc = "done"
    /\ Get(result).changed
    /\ Get(result).diff.before = EmptyDict
    /\ Len(Get(result).record.partitions) = 2
    /\ Get(result).record.tags = {"b", "c"}

\* C3: a state=absent invocation whose machine resolves and whose block
\* device does not exist reports changed = false, record = {}, before = {},
\* after = {}, and at no point issues a mutating remote call.
C3_DeleteAbsentNoOp ==
    (params.state = "absent" /\ ~found)
    => (/\ \A k \in 1..Len(calls) : calls[k].op \notin MutatingOps
        /\ pc = "done" =>
             /\ result = Result(FALSE, EmptyDict, EmptyDict, EmptyDict)
             /\ device = None)

C3_Witness ==
    /\ params.state = "absent" /\ ~found /\ pc = "done"
    /\ machine # None
    /\ Ops = <<"findMachine", "findBlockDevice">>
    /\ Get(result).changed = FALSE

\* C4: a mountPartition call is issued for a partition only if that
\* partition declares an fs_type and a formatPartition call for it came
\* earlier and succeeded (the service holds its filesystem); a partition
\* with a mount_point and no fs_type never gets a mount call.
C4_MountRequiresFormat ==
    \A k \in 1..Len(calls) :
        calls[k].op = "mountPartition" =>
            /\ TruthyStr(Partitions[calls[k].part].fs_type)
            /\ \E j \in 1..(k - 1) :
                   calls[j].op = "formatPartition" /\ calls[j].part = calls[k].part
            /\ Get(device).partitions[calls[k].part].fstype # None

C4_Witness ==
    /\ pc = "done" /\ Len(DeclaredPartitions) = 2
    /\ TruthyStr(Partitions[1].mount_point) /\ Partitions[1].fs_type = None
    /\ Get(device).partitions[1].mount_point = None
    /\ \E k \in 1..Len(calls) : calls[k].op = "mountPartition" /\ calls[k].part = 2

\* C5: on the update path an addDeviceTag call is issued for exactly the
\* declared tags the device does not carry yet (device {a, b}, declared
\* {b, c}: only c), and no tag is ever removed.
C5_TagAppendOnly ==
    UpdateRunEnded =>
        /\ {calls[k].tag : k \in {j \in 1..Len(calls) : calls[j].op = "addDeviceTag"}}
             = {t \in DeclaredTags : t \notin before.tags}
        /\ before.tags \subseteq Get(device).tags

\* C6: what data_for_update_block_device returns for a machine that is not
\* "ready" holds neither size nor block_size, whatever the declaration;
\* name, model, serial and id_path are in it whenever the declared value
\* differs from the device's, whatever the status.
C6_StatusGatedImmutability ==
    pc = "diff_done" =>
        LET d == Get(data)
            dev == Get(device)
        IN  /\ machine # Some(ReadyStatus) =>
                  "size" \notin DOMAIN d /\ "block_size" \notin DOMAIN d
            /\ (TruthyStr(params.new_name) /\ params.new_name # dev.name)
                  => ("name" \in DOMAIN d /\ d["name"] = params.new_name)
            /\ (TruthyStr(params.model) /\ params.model # dev.model)
                  => ("model" \in DOMAIN d /\ d["model"] = params.model)
            /\ (TruthyStr(params.serial) /\ params.serial # dev.serial)
                  => ("serial" \in DOMAIN d /\ d["serial"] = params.serial)
            /\ (TruthyStr(params.id_path) /\ params.id_path # dev.id_path)
                  => ("id_path" \in DOMAIN d /\ d["id_path"] = params.id_path)

C6_Witness ==
    /\ pc = "diff_done"
    /\ machine = Some("deployed")
    /\ params.size_gigabytes = Some(30) /\ Get(device).size = Some(27)
    /\ params.block_size = Some(4096) /\ Get(device).block_size = Some(512)
    /\ params.new_name = Some("sdb")
    /\ Get(data) = [name |-> Some("sdb")]

\* The diff map the declaration calls for: a field is in it exactly when
\* a value is declared for it, that value differs from the device's, and
\* the machine's status lets the field change.
MinimalDiff(p, dev, status) ==
    LET desired == [name |-> p.new_name, model |-> p.model, serial |-> p.serial,
                    id_path |-> p.id_path, block_size |-> p.block_size,
                    size |-> p.size_gigabytes]
        legal(f) == f \in {"name", "model", "serial", "id_path"} \/ status = ReadyStatus
        keys == {f \in DOMAIN desired :
                    desired[f] # None /\ desired[f] # dev[f] /\ legal(f)}
    IN  [f \in keys |-> desired[f]]

\* C7: the diff map computed on the update path holds a field exactly
\* when its declared value differs from the device's and the machine's
\* status lets it change: {block_size: new} when only block_size differs
\* on a "ready" machine, empty when nothing differs.
C7_DiffMinimality ==
    UpdateRunEnded =>
        /\ data # None
        /\ Get(data) = MinimalDiff(params, before, Get(machine))

\* The create payload the declaration calls for, a partition at a time.
PartitionPayload(partition) ==
    IF partition.size_gigabytes # None
    THEN "size" :> partition.size_gigabytes ELSE EmptyDict

\* C8: the payload handed to createPartition holds the key size, with the
\* declared size_gigabytes, when a size is declared, and no other key.
C8_PartitionCreatePayload ==
    \A k \in 1..Len(calls) :
        calls[k].op = "createPartition" =>
            calls[k].payload = Some(PartitionPayload(Partitions[calls[k].part]))

Optional == {"model", "serial", "id_path"}

CreatePayloads == {calls[k].payload : k \in {j \in 1..Len(calls) : calls[j].op = "createBlockDevice"}}

\* C9 as first stated: the payload handed to createBlockDevice holds name
\* and size, block_size as declared or 512 when it is omitted, and model,
\* serial and id_path exactly when the caller supplied them.
C9_CreatePayloadAsStated ==
    \A o \in CreatePayloads :
        LET d == Get(o)
        IN  /\ DOMAIN d = {"name", "size", "block_size"}
                            \cup {f \in Optional : params[f] # None}
            /\ d["name"] = params.name
            /\ d["size"] = params.size_gigabytes
            /\ d["block_size"] = IF params.block_size = None
                                 THEN Some(512) ELSE params.block_size
            /\ \A f \in Optional \cap DOMAIN d : d[f] = params[f]

\* C9: the payload handed to createBlockDevice holds name and size,
\* block_size as declared when it is declared and not 0 and 512 otherwise,
\* and model, serial and id_path exactly when the caller supplied a
\* non-empty value; it holds no other key.
C9_CreatePayload ==
    \A o \in CreatePayloads :
        LET d == Get(o)
        IN  /\ DOMAIN d = {"name", "size", "block_size"}
                            \cup {f \in Optional : params[f] \notin {None, Some("")}}
            /\ d["name"] = params.name
            /\ d["size"] = params.size_gigabytes
            /\ d["block_size"] = IF params.block_size \in {None, Some(0)}
                                 THEN Some(512) ELSE params.block_size
            /\ \A f \in Optional \cap DOMAIN d : d[f] = params[f]

C9_Witness ==
    /\ params.block_size = None
    /\ CreatePayloads = { Some([name |-> Some("vdb"), size |-> Some(27),
                                block_size |-> Some(512), id_path |-> Some("/dev/vdb")]) }

\* C10: a state=absent invocation that finds the block device fetches its
\* snapshot, then issues one deleteBlockDevice call, and reports
\* changed = true, record = {}, before = that snapshot, after = {}.
C10_DeleteExisting ==
    (params.state = "absent" /\ found /\ pc = "done")
    => (/\ result = Result(TRUE, EmptyDict, ExistingDevice, EmptyDict)
        /\ before = ExistingDevice
        /\ device = None
        /\ Ops = <<"findMachine", "findBlockDevice", "getBlockDeviceSnapshot",
                   "deleteBlockDevice">>)

C10_Witness ==
    /\ params.state = "absent" /\ found /\ pc = "done"
    /\ Get(result).changed
    /\ Get(result).diff.before = ExistingDevice
    /\ device = None

\* C11: on the update path changed is true exactly when the snapshot
\* fetched before any mutating call differs from the one fetched after
\* them all; record and after are the later snapshot, before the earlier
\* one, and all three are the same snapshot when changed is false.
C11_UpdateChangedFlag ==
    UpdateRunEnded =>
        /\ pc = "done"
        /\ result # None
        /\ Get(result).diff.before = before
        /\ Get(result).diff.after = Get(device)
        /\ Get(result).record = Get(device)
        /\ Get(result).changed = (before # Get(device))

\* C12: the machine lookup is the first remote call of every invocation,
\* and when the machine is not found the invocation fails with that one
\* call issued (no block-device lookup, no mutating call) and no result,
\* whether state is present or absent.
C12_MachineResolutionFirst ==
    /\ calls # <<>> => calls[1].op = "findMachine"
    /\ pc # "start" => calls # <<>>
    /\ (machine = None /\ pc # "start") =>
           /\ pc = "failed"
           /\ Ops = <<"findMachine">>
           /\ result = None

C12_Witness ==
    /\ machine = None
    /\ params.state = "present"
    /\ pc = "failed"
    /\ Ops = <<"findMachine">>
    /\ runNo = 2

\* C13: the step at which a remote call fails issues that call and no
\* other, leaves the remote block device as the earlier steps made it and
\* reports no result; after it the invocation takes no further step (the
\* only step left is the next run of the module, which starts from the
\* same remote state).
C13_AbortWithoutRollback ==
    [][ /\ (pc' = "failed" /\ pc # "failed") =>
               /\ device' = device
               /\ result' = None
               /\ Len(calls') = Len(calls) + 1
        /\ pc = "failed" =>
               /\ pc' = "start"
               /\ runNo' = runNo + 1
               /\ device' = device ]_vars

C13_Witness ==
    /\ pc = "failed"
    /\ result = None
    /\ Len(DeclaredPartitions) = 2
    /\ calls[Len(calls)] = Call("formatPartition", 2, Some(data_for_format(Partitions[2])), "")
    /\ Len(Get(device).partitions) = 2
    /\ Get(device).partitions[1].fstype = Some("ext4")
    /\ Get(device).partitions[2].fstype = None

IsPrefix(s, t) == Len(s) <= Len(t) /\ SubSeq(t, 1, Len(s)) = s

\* A call without its payload.
Brief(c) == <<c.op, c.part, c.tag>>

BriefCalls == [k \in 1..Len(calls) |-> Brief(calls[k])]

IsPartitionCall(c) == c.part > 0

PartitionCalls ==
    LET sel == SelectSeq(calls, IsPartitionCall)
    IN  [k \in 1..Len(sel) |-> Brief(sel[k])]

\* The calls the declaration of partition i asks for, in order.
ExpectedForPartition(i) ==
    LET p == DeclaredPartitions[i]
        tags == IF p.tags = None THEN <<>> ELSE Get(p.tags)
    IN  <<<<"createPartition", i, "">>>>
        \o (IF p.fs_type # None THEN <<<<"formatPartition", i, "">>>> ELSE <<>>)
        \o (IF p.fs_type # None /\ p.mount_point # None
            THEN <<<<"mountPartition", i, "">>>> ELSE <<>>)
        \o [t \in 1..Len(tags) |-> <<"addPartitionTag", i, tags[t]>>]

RECURSIVE ExpectedFromPartition(_)
ExpectedFromPartition(i) ==
    IF i > Len(DeclaredPartitions) THEN <<>>
    ELSE ExpectedForPartition(i) \o ExpectedFromPartition(i + 1)

ExpectedPartitionCalls == ExpectedFromPartition(1)

\* C14: the partition calls of an invocation are, at every point, the
\* first calls of the sequence the declaration asks for (partition by
\* partition in declaration order; within a partition create, format if
\* fs_type is declared, mount if formatted and mount_point is declared,
\* then one addPartitionTag per declared tag, formatted or not), and are
\* that whole sequence once the create path has left the partitions.
C14_PartitionOrdering ==
    /\ IsPrefix(PartitionCalls, ExpectedPartitionCalls)
    /\ (params.state = "present" /\ ~found
        /\ pc \in {"device_tag", "boot", "create_fetch", "done"})
           => PartitionCalls = ExpectedPartitionCalls

C14_Witness ==
    /\ pc = "done"
    /\ Len(DeclaredPartitions) = 2
    /\ Partitions[1].fs_type = None /\ Partitions[1].mount_point # None
    /\ Partitions[2].fs_type # None /\ Partitions[2].mount_point # None
    /\ PartitionCalls = << <<"createPartition", 1, "">>, <<"addPartitionTag", 1, "pt">>,
                           <<"createPartition", 2, "">>, <<"formatPartition", 2, "">>,
                           <<"mountPartition", 2, "">>, <<"addPartitionTag", 2, "pt">> >>

DeclaredTagList == IF params.tags = None THEN <<>> ELSE Get(params.tags)

\* The calls a create-path invocation of the declaration asks for.
ExpectedCreateCalls ==
    << <<"findMachine", 0, "">>, <<"findBlockDevice", 0, "">>,
       <<"createBlockDevice", 0, "">> >>
    \o ExpectedPartitionCalls
    \o [t \in 1..Len(DeclaredTagList) |-> <<"addDeviceTag", 0, DeclaredTagList[t]>>]
    \o (IF params.is_boot_device = Some(TRUE) THEN <<<<"setBootDevice", 0, "">>>> ELSE <<>>)
    \o << <<"getBlockDeviceSnapshot", 0, "">> >>

\* C15: the calls of a state=present invocation that finds no device are,
\* at every point, the first calls of: the two lookups, createBlockDevice,
\* every partition's calls, addDeviceTag per declared tag, setBootDevice
\* if is_boot_device is true, the snapshot fetch; a completed invocation
\* has issued exactly that sequence.
C15_CreatePathOrdering ==
    (params.state = "present" /\ ~found) =>
        /\ IsPrefix(BriefCalls, ExpectedCreateCalls)
        /\ pc = "done" => BriefCalls = ExpectedCreateCalls

C15_Witness ==
    /\ params.state = "present" /\ ~found /\ pc = "done"
    /\ Len(DeclaredPartitions) = 1
    /\ BriefCalls = << <<"findMachine", 0, "">>, <<"findBlockDevice", 0, "">>,
                       <<"createBlockDevice", 0, "">>, <<"createPartition", 1, "">>,
                       <<"addPartitionTag", 1, "pt">>,
                       <<"addDeviceTag", 0, "b">>, <<"addDeviceTag", 0, "c">>,
                       <<"setBootDevice", 0, "">>, <<"getBlockDeviceSnapshot", 0, "">> >>

CallsOf(op) == SelectSeq(calls, LAMBDA c : c.op = op)

\* C16: an update-path invocation issues one updateBlockDevice call, with
\* exactly the diff map, when the diff map is not empty, and none when it
\* is empty; the call comes between the two snapshot fetches.
C16_UpdateCallGating ==
    UpdateRunEnded =>
        LET diff == data_for_update_block_device(params, before, Get(machine))
            updates == CallsOf("updateBlockDevice")
        IN  /\ diff = EmptyDict => updates = <<>>
            /\ diff # EmptyDict =>
                   /\ Len(updates) = 1
                   /\ updates[1].payload = Some(diff)
                   /\ \E i, j, k \in 1..Len(calls) :
                          /\ i < j /\ j < k
                          /\ calls[i].op = "getBlockDeviceSnapshot"
                          /\ calls[j].op = "updateBlockDevice"
                          /\ calls[k].op = "getBlockDeviceSnapshot"

\* C17: a state=present invocation that ends without a remote failure has
\* issued one setBootDevice call if is_boot_device is true, on the create
\* path and on the update path alike, and none if it is false or unset.
C17_BootDiskAsymmetry ==
    /\ params.is_boot_device # Some(TRUE) => CallsOf("setBootDevice") = <<>>
    /\ (params.state = "present" /\ pc \in Terminal \ {"failed"}) =>
           Len(CallsOf("setBootDevice")) = (IF params.is_boot_device = Some(TRUE) THEN 1 ELSE 0)

LastOp == calls[Len(calls)].op

\* C18 as first stated: a block-device lookup by name that comes back
\* absent never fails the invocation, on any path, also when another
\* invocation has deleted the device since this one located it.
C18_LookupNeverFatalAsStated ==
    pc = "failed" => LastOp # "findBlockDevice"

\* C18: the block-device lookup of run (the create/update branching) and
\* of delete_block_device never fails the invocation when it comes back
\* absent; the only block-device lookup that does is the one
\* update_block_device repeats with must_exist=True, when the device has
\* been deleted since run located it.
C18_OnlyUpdateLookupFatal ==
    /\ (Len(calls) = 2 /\ LastOp = "findBlockDevice") => pc # "failed"
    /\ (pc = "failed" /\ LastOp = "findBlockDevice") =>
           /\ params.state = "present"
           /\ found
           /\ Len(calls) = 3
           /\ device = None

C18_Witness ==
    /\ runNo = 2
    /\ hist[1].outcome = "failed"
    /\ hist[1].found
    /\ hist[1].calls[Len(hist[1].calls)].op = "findBlockDevice"
    /\ pc = "create"
    /\ ~found
    /\ LastOp = "findBlockDevice"

\* The run before this one took the create path, got its block device
\* created and failed at a later call.
PreviousRunFailedAfterCreate ==
    /\ runNo >= 2
    /\ params.state = "present"
    /\ hist[runNo - 1].outcome = "failed"
    /\ \E k \in 1..(Len(hist[runNo - 1].calls) - 1) :
           hist[runNo - 1].calls[k].op = "createBlockDevice"

\* The partitions the earlier run got created before it failed.
PartitionsLeftBy(run) ==
    LET hc == hist[run].calls
        n == Len(SelectSeq(hc, LAMBDA c : c.op = "createPartition"))
    IN  IF hc[Len(hc)].op = "createPartition" THEN n - 1 ELSE n

\* C19: the invocation that follows a create-path run that failed after
\* its createBlockDevice succeeded finds the device by name, issues no
\* createBlockDevice and no createPartition call, and leaves the device
\* with the partitions the failed run had created.
C19_SafeReinvocation ==
    PreviousRunFailedAfterCreate =>
        /\ CallsOf("createBlockDevice") = <<>>
        /\ CallsOf("createPartition") = <<>>
        /\ pc \notin {"start", "locate"} => found
        /\ device # None
        /\ Len(Get(device).partitions) = PartitionsLeftBy(runNo - 1)

C19_Witness ==
    /\ PreviousRunFailedAfterCreate
    /\ pc = "crashed"
    /\ found
    /\ Len(DeclaredPartitions) = 2
    /\ Len(Get(device).partitions) = 1

BranchOps == {"createBlockDevice", "updateBlockDevice", "deleteBlockDevice"}

\* C20: an invocation issues at most one call among createBlockDevice,
\* updateBlockDevice and deleteBlockDevice; a state=absent invocation
\* issues no mutating call other than deleteBlockDevice, and a
\* state=present invocation never issues deleteBlockDevice.
C20_BranchExclusivity ==
    /\ Len(SelectSeq(calls, LAMBDA c : c.op \in BranchOps)) <= 1
    /\ params.state = "absent" =>
           \A k \in 1..Len(calls) : calls[k].op \notin MutatingOps \ {"deleteBlockDevice"}
    /\ params.state = "present" => CallsOf("deleteBlockDevice") = <<>>

C20_Witness ==
    /\ params.state = "absent"
    /\ pc = "done"
    /\ runNo = 1
    /\ SelectSeq(calls, LAMBDA c : c.op \in MutatingOps)
         = <<Call("deleteBlockDevice", 0, None, "")>>

====
